---- MODULE Spec2Model ----
(***************************************************************************)
(* Model of the Senate EFD filing scraper (src/scraper.py, with the        *)
(* tables of src/constants.py) and of the store of its records on the      *)
(* local disk (src/data_store.py).                                        *)
(*                                                                         *)
(* Python strings that the code inspects or builds (hrefs, anchor texts,   *)
(* dates, query parameter values, URLs) are sequences of one-character     *)
(* strings, so that lower(), `in`, strip(), join(), strftime(), strptime() *)
(* and the anchor regular expression are computed character by character.  *)
(* Dictionary keys, header values and CSRF tokens are never inspected by   *)
(* the code and stay atomic strings.                                       *)
(***************************************************************************)
EXTENDS Integers, Sequences, FiniteSets, TLC

(* ------------------------------------------------------------------ *)
(* Bounds of the model                                                 *)
(* ------------------------------------------------------------------ *)

\* scrape_filing_urls invocations on one scraper object
MaxScrapes == 2
\* non-empty pages the server serves within one invocation
MaxPages == 3
\* rows in one argument list of a direct parse_filing_results call
MaxRows == 2

(* ------------------------------------------------------------------ *)
(* Python values                                                       *)
(* ------------------------------------------------------------------ *)

\* Optional[T]: None is the empty tuple, a present value x is <<x>>
None == << >>

Some(x) == <<x>>

IsNone(o) == Len(o) = 0

Get(o) == o[1]

\* dict.update: the keys of u overwrite or extend d
dict_update(d, u) ==
    [k \in (DOMAIN d) \cup (DOMAIN u) |-> IF k \in DOMAIN u THEN u[k] ELSE d[k]]

\* the dictionary with no key
EmptyDict == [k \in {} |-> 0]

SetMin(S) == CHOOSE x \in S : \A y \in S : x <= y

SetMax(S) == CHOOSE x \in S : \A y \in S : y <= x

(* ------------------------------------------------------------------ *)
(* str methods                                                         *)
(* ------------------------------------------------------------------ *)

ascii_lowercase ==
       ("A" :> "a") @@ ("B" :> "b") @@ ("C" :> "c") @@ ("D" :> "d")
    @@ ("E" :> "e") @@ ("F" :> "f") @@ ("G" :> "g") @@ ("H" :> "h")
    @@ ("I" :> "i") @@ ("J" :> "j") @@ ("K" :> "k") @@ ("L" :> "l")
    @@ ("M" :> "m") @@ ("N" :> "n") @@ ("O" :> "o") @@ ("P" :> "p")
    @@ ("Q" :> "q") @@ ("R" :> "r") @@ ("S" :> "s") @@ ("T" :> "t")
    @@ ("U" :> "u") @@ ("V" :> "v") @@ ("W" :> "w") @@ ("X" :> "x")
    @@ ("Y" :> "y") @@ ("Z" :> "z")

\* str.lower()
lower(s) ==
    [i \in 1..Len(s) |->
        IF s[i] \in DOMAIN ascii_lowercase THEN ascii_lowercase[s[i]] ELSE s[i]]

\* sub in s
str_contains(s, sub) ==
    \E i \in 0..(Len(s) - Len(sub)) : SubSeq(s, i + 1, i + Len(sub)) = sub

whitespace == {" ", "\t", "\n", "\r"}

\* str.strip()
strip(s) ==
    LET keep == {i \in 1..Len(s) : s[i] \notin whitespace}
    IN  IF keep = {} THEN << >> ELSE SubSeq(s, SetMin(keep), SetMax(keep))

digits == <<"0", "1", "2", "3", "4", "5", "6", "7", "8", "9">>

RECURSIVE str_int(_)
\* str(n) for n >= 0
str_int(n) ==
    IF n < 10 THEN <<digits[n + 1]>>
              ELSE str_int(n \div 10) \o <<digits[(n % 10) + 1]>>

RECURSIVE join(_, _)
\* sep.join(items)
join(sep, items) ==
    IF Len(items) = 0 THEN << >>
    ELSE IF Len(items) = 1 THEN items[1]
    ELSE items[1] \o sep \o join(sep, Tail(items))

\* the value of a decimal digit character, -1 for any other character
digit_value(c) ==
    IF \E d \in 1..10 : digits[d] = c
        THEN (CHOOSE d \in 1..10 : digits[d] = c) - 1
        ELSE -1

(* ------------------------------------------------------------------ *)
(* datetime                                                            *)
(* ------------------------------------------------------------------ *)

datetime(y, mo, d, h, mi, s) ==
    [year |-> y, month |-> mo, day |-> d, hour |-> h, minute |-> mi, second |-> s]

is_leap(y) == (y % 4 = 0) /\ ((y % 100 # 0) \/ (y % 400 = 0))

days_in_month(y, m) ==
    IF m = 2 THEN (IF is_leap(y) THEN 29 ELSE 28)
    ELSE IF m \in {4, 6, 9, 11} THEN 30 ELSE 31

\* %m, %d, %H, %M, %S of strftime: two digits, zero padded
pad2(n) == <<digits[(n \div 10) + 1], digits[(n % 10) + 1]>>

\* %Y of strftime, for the four-digit years the model uses
pad4(n) == pad2(n \div 100) \o pad2(n % 100)

\* strftime with the day before the month: "%d/%m/%Y %H:%M:%S"
strftime_day_first(dt) ==
    pad2(dt.day) \o <<"/">> \o pad2(dt.month) \o <<"/">> \o pad4(dt.year)
    \o <<" ">> \o pad2(dt.hour) \o <<":">> \o pad2(dt.minute)
    \o <<":">> \o pad2(dt.second)

\* dt.strftime("%m/%d/%Y %H:%M:%S")
strftime(dt) ==
    pad2(dt.month) \o <<"/">> \o pad2(dt.day) \o <<"/">> \o pad4(dt.year)
    \o <<" ">> \o pad2(dt.hour) \o <<":">> \o pad2(dt.minute)
    \o <<":">> \o pad2(dt.second)

\* a call that returned v, and a call that raised the exception named e
Returned(v) == [ok |-> TRUE, value |-> v]

Raised(e) == [ok |-> FALSE, error |-> e]

\* the number a string of decimal digits denotes, -1 if it has another character
RECURSIVE int_of(_)
int_of(s) ==
    IF Len(s) = 0 THEN 0
    ELSE LET hi == int_of(SubSeq(s, 1, Len(s) - 1))
             lo == digit_value(s[Len(s)])
         IN  IF hi < 0 \/ lo < 0 THEN -1 ELSE 10 * hi + lo

\* the directive %m: 1[0-2]|0[1-9]|[1-9]
match_m(s) == Len(s) \in {1, 2} /\ int_of(s) \in 1..12

\* the directive %d: 3[0-1]|[1-2]\d|0[1-9]|[1-9]| [1-9]
match_d(s) ==
    \/ Len(s) \in {1, 2} /\ int_of(s) \in 1..31
    \/ Len(s) = 2 /\ s[1] = " " /\ digit_value(s[2]) \in 1..9

\* the directive %Y: \d\d\d\d
match_Y(s) == Len(s) = 4 /\ int_of(s) >= 0

\* datetime.strptime(s, "%m/%d/%Y"): the datetime, or ValueError raised.
\* The three directives hold no "/", so the month is what precedes the first
\* "/", the day what lies between the first and the second, and the year is
\* the rest, which must be exactly four digits (no unconverted data remains).
strptime(s) ==
    LET slashes == {i \in 1..Len(s) : s[i] = "/"}
    IN  IF Cardinality(slashes) < 2 THEN Raised("ValueError")
        ELSE
          LET p1 == SetMin(slashes)
              p2 == SetMin(slashes \ {p1})
              ms == SubSeq(s, 1, p1 - 1)
              ds == SubSeq(s, p1 + 1, p2 - 1)
              ys == SubSeq(s, p2 + 1, Len(s))
          IN  IF ~(match_m(ms) /\ match_d(ds) /\ match_Y(ys)) THEN Raised("ValueError")
              ELSE
                LET m == int_of(ms)
                    d == IF ds[1] = " " THEN digit_value(ds[2]) ELSE int_of(ds)
                    y == int_of(ys)
                IN  IF y < 1 \/ d > days_in_month(y, m) THEN Raised("ValueError")
                    ELSE Returned(datetime(y, m, d, 0, 0, 0))

(* ------------------------------------------------------------------ *)
(* src/constants.py                                                    *)
(* ------------------------------------------------------------------ *)

BASE_URL == <<"h","t","t","p","s",":","/","/","e","f","d","s","e","a","r","c","h",".","s","e","n","a","t","e",".","g","o","v">>

ROOT_URL == BASE_URL \o <<"/","s","e","a","r","c","h","/","h","o","m","e","/">>

SEARCH_URL == BASE_URL \o <<"/","s","e","a","r","c","h","/","r","e","p","o","r","t","/","d","a","t","a","/">>

\* the members of the enumeration FilingType, in definition order
FilingType == <<"unknown", "annual_report", "periodic_transaction_report">>

FilingType_UNKNOWN == FilingType[1]

FilingType_ANNUAL_REPORT == FilingType[2]

FilingType_PERIODIC_TRANSACTION_REPORT == FilingType[3]

SENATE_FILING_SEARCH_REQUEST_HEADERS ==
       ("User-Agent" :> "Mozilla/5.0 (X11; Ubuntu; Linux x86_64; rv:109.0) Gecko/20100101 Firefox/118.0")
    @@ ("Referer" :> "https://efdsearch.senate.gov/search/home/")
    @@ ("Origin" :> "https://efdsearch.senate.gov")

REPORT_TYPE_TO_ID ==
       (FilingType_ANNUAL_REPORT :> 7)
    @@ (FilingType_PERIODIC_TRANSACTION_REPORT :> 11)

\* [str(REPORT_TYPE_TO_ID[t]) for t in types if t != FilingType.UNKNOWN]
RECURSIVE report_type_ids(_)
report_type_ids(types) ==
    IF Len(types) = 0 THEN << >>
    ELSE IF types[1] # FilingType_UNKNOWN
        THEN <<str_int(REPORT_TYPE_TO_ID[types[1]])>> \o report_type_ids(Tail(types))
        ELSE report_type_ids(Tail(types))

\* f"[{', '.join(ids)}]"
bracketed(ids) == <<"[">> \o join(<<",", " ">>, ids) \o <<"]">>

\* the value of "report_types" in SENATE_FILING_SEARCH_PARAMS
default_report_types == bracketed(report_type_ids(FilingType))

SENATE_FILING_SEARCH_PARAMS ==
       ("draw" :> 1)
    @@ ("columns[0][data]" :> <<"0">>)
    @@ ("columns[0][name]" :> << >>)
    @@ ("columns[0][searchable]" :> <<"t","r","u","e">>)
    @@ ("columns[0][orderable]" :> <<"t","r","u","e">>)
    @@ ("columns[0][search][value]" :> << >>)
    @@ ("columns[0][search][regex]" :> <<"f","a","l","s","e">>)
    @@ ("columns[1][data]" :> <<"1">>)
    @@ ("columns[1][name]" :> << >>)
    @@ ("columns[1][searchable]" :> <<"t","r","u","e">>)
    @@ ("columns[1][orderable]" :> <<"t","r","u","e">>)
    @@ ("columns[1][search][value]" :> << >>)
    @@ ("columns[1][search][regex]" :> <<"f","a","l","s","e">>)
    @@ ("columns[2][data]" :> <<"2">>)
    @@ ("columns[2][name]" :> << >>)
    @@ ("columns[2][searchable]" :> <<"t","r","u","e">>)
    @@ ("columns[2][orderable]" :> <<"t","r","u","e">>)
    @@ ("columns[2][search][value]" :> << >>)
    @@ ("columns[2][search][regex]" :> <<"f","a","l","s","e">>)
    @@ ("columns[3][data]" :> <<"3">>)
    @@ ("columns[3][name]" :> << >>)
    @@ ("columns[3][searchable]" :> <<"t","r","u","e">>)
    @@ ("columns[3][orderable]" :> <<"t","r","u","e">>)
    @@ ("columns[3][search][value]" :> << >>)
    @@ ("columns[3][search][regex]" :> <<"f","a","l","s","e">>)
    @@ ("columns[4][data]" :> <<"4">>)
    @@ ("columns[4][name]" :> << >>)
    @@ ("columns[4][searchable]" :> <<"t","r","u","e">>)
    @@ ("columns[4][orderable]" :> <<"t","r","u","e">>)
    @@ ("columns[4][search][value]" :> << >>)
    @@ ("columns[4][search][regex]" :> <<"f","a","l","s","e">>)
    @@ ("order[0][column]" :> <<"1">>)
    @@ ("order[0][dir]" :> <<"a","s","c">>)
    @@ ("order[1][column]" :> <<"0">>)
    @@ ("order[1][dir]" :> <<"a","s","c">>)
    @@ ("start" :> 0)
    @@ ("length" :> <<"2","5">>)
    @@ ("search[value]" :> << >>)
    @@ ("search[regex]" :> <<"f","a","l","s","e">>)
    @@ ("report_types" :> default_report_types)
    @@ ("filer_types" :> <<"[","1","]">>)
    @@ ("submitted_start_date" :> <<"0","1","/","0","1","/","2","0","1","2"," ","0","0",":","0","0",":","0","0">>)
    @@ ("submitted_end_date" :> <<"1","2","/","3","1","/","2","0","2","3"," ","2","3",":","5","9",":","5","9">>)
    @@ ("candidate_state" :> << >>)
    @@ ("senator_state" :> << >>)
    @@ ("office_id" :> << >>)
    @@ ("first_name" :> << >>)
    @@ ("last_name" :> << >>)
(* ------------------------------------------------------------------ *)
(* src/scraper.py: values and pure functions                           *)
(* ------------------------------------------------------------------ *)

\* the values of the enumeration FilingFormat
FilingFormat_HTML == "html"

FilingFormat_PDF == "pdf"

FilingFormat_UNKNOWN == "unknown"

\* the dataclass FilingSearchFilters; each field is an Optional
FilingSearchFilters(types, start, end) ==
    [filing_types |-> types, start_date |-> start, end_date |-> end]

\* the three overlays of FilingSearchFilters.to_search_params, in code order
report_types_param(self) ==
    IF ~IsNone(self.filing_types) /\ Len(Get(self.filing_types)) > 0
        THEN LET report_types == report_type_ids(Get(self.filing_types))
             IN  IF Len(report_types) > 0
                    THEN ("report_types" :> bracketed(report_types))
                    ELSE EmptyDict
        ELSE EmptyDict

start_date_param(self) ==
    IF ~IsNone(self.start_date)
        THEN ("submitted_start_date" :> strftime(Get(self.start_date)))
        ELSE EmptyDict

end_date_param(self) ==
    IF ~IsNone(self.end_date)
        THEN ("submitted_end_date" :> strftime(Get(self.end_date)))
        ELSE EmptyDict

\* FilingSearchFilters.to_search_params
to_search_params(self) ==
    dict_update(dict_update(report_types_param(self), start_date_param(self)),
                end_date_param(self))

\* parse_filing_format without the calls of lower()
parse_filing_format_case_sensitive(filing_url) ==
    IF str_contains(filing_url, <<"p","t","r">>)
       \/ str_contains(filing_url, <<"a","n","n","u","a","l">>)
        THEN FilingFormat_HTML
    ELSE IF str_contains(filing_url, <<"p","a","p","e","r">>)
        THEN FilingFormat_PDF
    ELSE FilingFormat_UNKNOWN

parse_filing_format(filing_url) ==
    IF str_contains(lower(filing_url), <<"p","t","r">>)
       \/ str_contains(lower(filing_url), <<"a","n","n","u","a","l">>)
        THEN FilingFormat_HTML
    ELSE IF str_contains(lower(filing_url), <<"p","a","p","e","r">>)
        THEN FilingFormat_PDF
    ELSE FilingFormat_UNKNOWN

\* parse_filing_type without the calls of lower()
parse_filing_type_case_sensitive(type_str) ==
    IF str_contains(type_str, <<"a","n","n","u","a","l"," ","r","e","p","o","r","t">>)
        THEN FilingType_ANNUAL_REPORT
    ELSE IF str_contains(type_str,
            <<"p","e","r","i","o","d","i","c"," ","t","r","a","n","s","a","c","t","i","o","n"," ","r","e","p","o","r","t">>)
        THEN FilingType_PERIODIC_TRANSACTION_REPORT
    ELSE FilingType_UNKNOWN

parse_filing_type(type_str) ==
    IF str_contains(lower(type_str), <<"a","n","n","u","a","l"," ","r","e","p","o","r","t">>)
        THEN FilingType_ANNUAL_REPORT
    ELSE IF str_contains(lower(type_str),
            <<"p","e","r","i","o","d","i","c"," ","t","r","a","n","s","a","c","t","i","o","n"," ","r","e","p","o","r","t">>)
        THEN FilingType_PERIODIC_TRANSACTION_REPORT
    ELSE FilingType_UNKNOWN

\* lit occurs in s at position p
occurs_at(s, lit, p) ==
    p >= 1 /\ p + Len(lit) - 1 <= Len(s) /\ SubSeq(s, p, p + Len(lit) - 1) = lit

\* The positions <<k, l, m>> at which  <a[^>]*href="([^"]+)"[^>]*>(.*?)</a>
\* matches s with "<a" at i and href=" at j: k is the quote closing the
\* href (the first one, [^"]+ takes no quote), l the first ">" after it
\* ([^>]* takes none), m the first "</a>" after that (.*? is lazy, and "."
\* takes no newline).  << >> when there is no such match.
anchor_match_at(s, i, j) ==
    LET n == Len(s)
        qs == {k \in (j + 6)..n : s[k] = "\""}
        k == SetMin(qs)
        gs == {l \in (k + 1)..n : s[l] = ">"}
        l == SetMin(gs)
        cs == {m \in (l + 1)..n : occurs_at(s, <<"<","/","a",">">>, m)}
        m == SetMin(cs)
    IN  IF /\ occurs_at(s, <<"<","a">>, i)
           /\ j >= i + 2
           /\ \A p \in (i + 2)..(j - 1) : s[p] # ">"
           /\ occurs_at(s, <<"h","r","e","f","=","\"">>, j)
           /\ qs # {}
           /\ k > j + 6
           /\ gs # {}
           /\ cs # {}
           /\ \A p \in (l + 1)..(m - 1) : s[p] # "\n"
        THEN <<k, l, m>>
        ELSE << >>

\* FILING_URL_PATTERN.search(s): None, or the match's group(1) and group(2).
\* search takes the leftmost "<a" that can match; the greedy [^>]* then takes
\* the last href=" that can match.
FILING_URL_PATTERN_search(s) ==
    LET tags == {i \in 1..Len(s) : occurs_at(s, <<"<","a">>, i)}
        hrefs == {j \in 1..Len(s) : occurs_at(s, <<"h","r","e","f","=","\"">>, j)}
        starts == {i \in tags : \E j \in hrefs : anchor_match_at(s, i, j) # << >>}
    IN  IF starts = {} THEN None
        ELSE
          LET i == SetMin(starts)
              j == SetMax({jj \in hrefs : anchor_match_at(s, i, jj) # << >>})
              at == anchor_match_at(s, i, j)
          IN  Some([group1 |-> SubSeq(s, j + 6, at[1] - 1),
                    group2 |-> SubSeq(s, at[2] + 1, at[3] - 1)])

FIRST_NAME_IDX == 0

LAST_NAME_IDX == 1

OFFICE_NAME_IDX == 2

FILING_LINK_IDX == 3

FILING_DATE_IDX == 4

\* row[idx] of a Python list
item(row, idx) == row[idx + 1]

\* the frozen dataclass FilingResult
FilingResult(first, last, office, date, type, url, format) ==
    [first_name |-> first, last_name |-> last, office_name |-> office,
     filing_date |-> date, filing_type |-> type, filing_url |-> url,
     filing_format |-> format]

\* line 119: the href is made absolute
absolute_url_unprefixed(filing_url) == filing_url

absolute_url(filing_url) == BASE_URL \o filing_url

\* lines 109-111: the ValueError of strptime is caught and the row skipped
bad_date_reraised == [kind |-> "raise", error |-> "ValueError"]

bad_date == [kind |-> "skip"]

\* lines 107-122: the date is read, and the row's FilingResult appended
parse_dated_row(row, filing_url, filing_type_text) ==
    LET filing_date == strptime(item(row, FILING_DATE_IDX))
    IN  IF ~filing_date.ok THEN bad_date
        ELSE [kind |-> "append",
              value |-> FilingResult(
                  strip(item(row, FIRST_NAME_IDX)),
                  strip(item(row, LAST_NAME_IDX)),
                  strip(item(row, OFFICE_NAME_IDX)),
                  filing_date.value,
                  parse_filing_type(filing_type_text),
                  absolute_url(filing_url),
                  parse_filing_format(filing_url))]

\* One iteration of the loop of parse_filing_results: the row is skipped
\* (continue), appends one FilingResult, or lets an exception escape.
parse_row(row) ==
    IF Len(row) <= FILING_DATE_IDX THEN [kind |-> "skip"]
    ELSE
      LET match == FILING_URL_PATTERN_search(item(row, FILING_LINK_IDX))
      IN  IF IsNone(match) THEN [kind |-> "skip"]
          ELSE parse_dated_row(row, Get(match).group1, Get(match).group2)

RECURSIVE parse_rows_newest_first(_, _)
\* parse_rows with each record put before the ones parsed so far
parse_rows_newest_first(results, parsed_filings) ==
    IF Len(results) = 0 THEN Returned(parsed_filings)
    ELSE
      LET step == parse_row(results[1])
      IN  IF step.kind = "raise" THEN Raised(step.error)
          ELSE IF step.kind = "skip"
              THEN parse_rows_newest_first(Tail(results), parsed_filings)
          ELSE parse_rows_newest_first(Tail(results), <<step.value>> \o parsed_filings)

RECURSIVE parse_rows(_, _)
\* the loop of parse_filing_results over the rows left, parsed so far given
parse_rows(results, parsed_filings) ==
    IF Len(results) = 0 THEN Returned(parsed_filings)
    ELSE
      LET step == parse_row(results[1])
      IN  IF step.kind = "raise" THEN Raised(step.error)
          ELSE IF step.kind = "skip" THEN parse_rows(Tail(results), parsed_filings)
          ELSE parse_rows(Tail(results), Append(parsed_filings, step.value))

parse_filing_results(results) == parse_rows(results, << >>)

(* ------------------------------------------------------------------ *)
(* src/data_store.py: values and pure functions                        *)
(* ------------------------------------------------------------------ *)

\* the characters of the model's strings for which str.isalnum() is true
alnum ==
    (DOMAIN ascii_lowercase)
    \cup {ascii_lowercase[c] : c \in DOMAIN ascii_lowercase}
    \cup {digits[d] : d \in 1..10}

RECURSIVE split(_, _)
\* s.split(sep) for a separator of one character
split(s, sep) ==
    IF \A i \in 1..Len(s) : s[i] # sep THEN <<s>>
    ELSE LET at == SetMin({i \in 1..Len(s) : s[i] = sep})
         IN  <<SubSeq(s, 1, at - 1)>> \o split(SubSeq(s, at + 1, Len(s)), sep)

\* dt.strftime("%Y-%m-%d")
strftime_date(dt) ==
    pad4(dt.year) \o <<"-">> \o pad2(dt.month) \o <<"-">> \o pad2(dt.day)

\* dt.isoformat() of a datetime without microseconds and without a zone
isoformat(dt) ==
    strftime_date(dt) \o <<"T">> \o pad2(dt.hour) \o <<":">> \o pad2(dt.minute)
    \o <<":">> \o pad2(dt.second)

\* datetime.fromisoformat(s) for the form YYYY-MM-DDTHH:MM:SS: the datetime,
\* or ValueError raised
fromisoformat(s) ==
    IF Len(s) # 19 THEN Raised("ValueError")
    ELSE LET y  == int_of(SubSeq(s, 1, 4))
             mo == int_of(SubSeq(s, 6, 7))
             d  == int_of(SubSeq(s, 9, 10))
             h  == int_of(SubSeq(s, 12, 13))
             mi == int_of(SubSeq(s, 15, 16))
             sc == int_of(SubSeq(s, 18, 19))
         IN  IF s[5] # "-" \/ s[8] # "-" \/ s[14] # ":" \/ s[17] # ":"
                 THEN Raised("ValueError")
             ELSE IF y < 1 \/ mo \notin 1..12 \/ h \notin 0..23
                     \/ mi \notin 0..59 \/ sc \notin 0..59
                 THEN Raised("ValueError")
             ELSE IF d \notin 1..days_in_month(y, mo) THEN Raised("ValueError")
             ELSE Returned(datetime(y, mo, d, h, mi, sc))

\* the sanitised name of line 166: the characters that are alphanumeric,
\* "_" or "-"
RECURSIVE safe(_)
safe(s) ==
    IF Len(s) = 0 THEN << >>
    ELSE (IF s[1] \in alnum \cup {"_", "-"} THEN <<s[1]>> ELSE << >>)
         \o safe(Tail(s))

\* line 172: filing_url.split('/')[-2], "unknown" for a URL without "/"
filing_id(filing_url) ==
    IF \E i \in 1..Len(filing_url) : filing_url[i] = "/"
        THEN LET parts == split(filing_url, "/") IN parts[Len(parts) - 1]
        ELSE <<"u","n","k","n","o","w","n">>

\* LocalDiskStore._get_filing_filename
get_filing_filename(filing) ==
    LET date_str  == strftime_date(filing.filing_date)
        safe_name == safe(filing.last_name \o <<"_">> \o filing.first_name
                          \o <<"_">> \o date_str)
        extension == IF filing.filing_format = FilingFormat_HTML
                         THEN <<".","h","t","m","l">>
                         ELSE <<".","p","d","f">>
    IN  safe_name \o <<"_">> \o filing_id(filing.filing_url) \o extension

\* LocalDiskStore._filing_to_dict at the moment now; an enumeration member is
\* its value in the model, so .value reads the field as it stands
filing_to_dict(filing, now) ==
    [first_name       |-> filing.first_name,
     last_name        |-> filing.last_name,
     office_name      |-> filing.office_name,
     filing_date      |-> isoformat(filing.filing_date),
     filing_type      |-> filing.filing_type,
     filing_url       |-> filing.filing_url,
     filing_format    |-> filing.filing_format,
     stored_at        |-> now,
     content_filename |-> get_filing_filename(filing)]

\* LocalDiskStore._dict_to_filing: the record, or ValueError raised by
\* fromisoformat, FilingType(...) or FilingFormat(...)
dict_to_filing(data) ==
    LET filing_date == fromisoformat(data.filing_date)
    IN  IF ~filing_date.ok THEN Raised("ValueError")
        ELSE IF \A i \in 1..Len(FilingType) : FilingType[i] # data.filing_type
            THEN Raised("ValueError")
        ELSE IF data.filing_format \notin
                    {FilingFormat_HTML, FilingFormat_PDF, FilingFormat_UNKNOWN}
            THEN Raised("ValueError")
        ELSE Returned(FilingResult(data.first_name, data.last_name,
                                   data.office_name, filing_date.value,
                                   data.filing_type, data.filing_url,
                                   data.filing_format))

\* a dictionary that keeps insertion order is the sequence of its items
dict_keys(d) == {d[i].key : i \in 1..Len(d)}

\* d[key]
dict_get(d, key) == d[CHOOSE i \in 1..Len(d) : d[i].key = key].value

\* d[key] = value: a key the dictionary holds keeps its place
dict_set(d, key, value) ==
    IF key \in dict_keys(d)
        THEN [i \in 1..Len(d) |->
                 IF d[i].key = key THEN [key |-> key, value |-> value] ELSE d[i]]
        ELSE Append(d, [key |-> key, value |-> value])

\* LocalDiskStore.__init__ on a directory that holds no metadata file and no
\* content: the cache, the two things on disk, the calls made on the store
\* and what the last one returned or raised
LocalDiskStore_init ==
    [metadata_cache |-> << >>, metadata_file |-> None, content_dir |-> EmptyDict,
     calls |-> << >>, outcome |-> None]

(* ------------------------------------------------------------------ *)
(* The inputs of the model                                             *)
(* ------------------------------------------------------------------ *)

\* a search cell:  <a href="HREF" target="_blank">TEXT</a>
anchor(href, text) ==
    <<"<","a"," ","h","r","e","f","=","\"">> \o href
    \o <<"\""," ","t","a","r","g","e","t","=","\"","_","b","l","a","n","k","\"",">">>
    \o text \o <<"<","/","a",">">>

\* a search cell with no attribute but the href:  <a href="HREF">TEXT</a>
plain_anchor(href, text) ==
    <<"<","a"," ","h","r","e","f","=","\"">> \o href \o <<"\"",">">>
    \o text \o <<"<","/","a",">">>

JaneHref == <<"/","s","e","a","r","c","h","/","v","i","e","w","/","p","t","r","/","a","b","c","1","2","3","/">>

PaperHref == <<"/","s","e","a","r","c","h","/","v","i","e","w","/","p","a","p","e","r","/","0","F","/">>

OtherHref == <<"/","s","e","a","r","c","h","/","v","i","e","w","/","e","x","t","/","7","/">>

\* a path that names no format, with a query string that names one
QueryHref == <<"/","s","e","a","r","c","h","/","v","i","e","w","/","d","o","c","/","8","/","?","f","r","o","m","=","p","a","p","e","r">>

PeriodicText == <<"P","e","r","i","o","d","i","c"," ","T","r","a","n","s","a","c","t","i","o","n"," ","R","e","p","o","r","t">>

AnnualText == <<"A","n","n","u","a","l"," ","R","e","p","o","r","t"," ","f","o","r"," ","C","Y"," ","2","0","2","0">>

OtherText == <<"E","x","t","e","n","s","i","o","n"," ","N","o","t","i","c","e">>

\* the row of the specification's end-to-end scenario
JaneRow ==
    << <<"J","a","n","e">>, <<"D","o","e">>, <<"S","e","n","a","t","o","r">>,
       plain_anchor(JaneHref, PeriodicText),
       <<"0","1","/","1","5","/","2","0","2","3">> >>

\* a paper filing: padded names, an unpadded date and a sixth field
PaperRow ==
    << <<" ","A","l"," ">>, <<"R","o","e","\t">>, <<"S","e","n","a","t","o","r">>,
       anchor(PaperHref, AnnualText),
       <<"2","/","9","/","2","0","2","1">>, <<"x">> >>

\* a filing of a category and a format the parser does not know
OtherRow ==
    << <<"A","l">>, <<"R","o","e">>, << >>,
       anchor(OtherHref, OtherText),
       <<"1","2","/","3","1","/","2","0","2","4">> >>

\* four fields only
ShortRow == << <<"J","a","n","e">>, <<"D","o","e">>, <<"S","e","n","a","t","o","r">>,
               plain_anchor(JaneHref, PeriodicText) >>

\* field 3 holds no anchor
NoAnchorRow ==
    << <<"J","a","n","e">>, <<"D","o","e">>, <<"S","e","n","a","t","o","r">>,
       PeriodicText, <<"0","1","/","1","5","/","2","0","2","3">> >>

\* field 4 is an ISO date
IsoDateRow ==
    << <<"J","a","n","e">>, <<"D","o","e">>, <<"S","e","n","a","t","o","r">>,
       plain_anchor(JaneHref, PeriodicText),
       <<"2","0","2","3","-","0","1","-","1","5">> >>

\* field 4 names a day its month does not have
NoSuchDayRow ==
    << <<"J","a","n","e">>, <<"D","o","e">>, <<"S","e","n","a","t","o","r">>,
       plain_anchor(JaneHref, PeriodicText),
       <<"0","2","/","3","0","/","2","0","2","3">> >>

\* the search endpoint's page size
FullPageRows == 25

\* a full page of results
FullPage == [i \in 1..FullPageRows |-> JaneRow]

\* a page that mixes rows that parse with rows that do not
MixedPage == <<JaneRow, ShortRow, PaperRow, NoAnchorRow, IsoDateRow, OtherRow, NoSuchDayRow>>

\* a page none of whose rows parses
SkippedPage == <<ShortRow, IsoDateRow>>

\* the non-empty "data" arrays the search endpoint serves
Pages == {FullPage, MixedPage, SkippedPage}

\* the CSRF token of the landing page
LandingTokens == {"tokA"}

\* the CSRF token of the agreement's response: a new one, or the same again
RotatedTokens == {"tokA", "tokB"}

October1 == datetime(2025, 10, 1, 0, 0, 0)

October31 == datetime(2025, 10, 31, 0, 0, 0)

\* the last second of October 2025
October31Night == datetime(2025, 10, 31, 23, 59, 59)

\* the filters of main()
MainFilters ==
    FilingSearchFilters(Some(<<FilingType_PERIODIC_TRANSACTION_REPORT>>),
                        Some(October1), Some(October31))

\* the periodic transaction reports of the whole of October 2025
OctoberFilters ==
    FilingSearchFilters(Some(<<FilingType_PERIODIC_TRANSACTION_REPORT>>),
                        Some(October1), Some(October31Night))

\* filters that name only the unknown category and a start date
StartOnlyFilters ==
    FilingSearchFilters(Some(<<FilingType_UNKNOWN>>), Some(October1), None)

\* the filters argument of an invocation
ScrapeFilters == {None, Some(MainFilters), Some(StartOnlyFilters)}

\* a response to session.get / session.post, or the call raising
\* requests.RequestException (no response)
HtmlResponses(tokens) ==
    {[raised |-> TRUE]}
    \cup [raised : {FALSE}, status_code : {200, 503},
          token : {None} \cup {Some(t) : t \in tokens}]

RootResponses == HtmlResponses(LandingTokens)

AgreementResponses == HtmlResponses(RotatedTokens)

\* response.json() raises, the decoded object has no "data" key, or "data"
\* is the array given
NotJson == [json |-> FALSE]

NoDataKey == [json |-> TRUE, keys |-> {"error"}]

Json(data) == [json |-> TRUE, keys |-> {"data"}, data |-> data]

SearchResponses ==
    {[raised |-> TRUE]}
    \cup {[raised |-> FALSE, status_code |-> 503, body |-> NotJson]}
    \cup [raised : {FALSE}, status_code : {200},
          body : {NotJson, NoDataKey, Json(<< >>)} \cup {Json(p) : p \in Pages}]

\* the response arrived with status 200 and holds the token field
has_token(response) ==
    IF response.raised THEN FALSE
    ELSE response.status_code = 200 /\ ~IsNone(response.token)

\* the response arrived with status 200 and a body that is not JSON with "data"
is_malformed(response) ==
    IF response.raised THEN FALSE
    ELSE IF response.status_code # 200 THEN FALSE
    ELSE IF ~response.body.json THEN TRUE
    ELSE "data" \notin response.body.keys

\* the response is a success whose "data" array holds at least one row
has_rows(response) ==
    IF response.raised THEN FALSE
    ELSE IF response.status_code # 200 THEN FALSE
    ELSE IF ~response.body.json THEN FALSE
    ELSE IF "data" \notin response.body.keys THEN FALSE
    ELSE Len(response.body.data) > 0

RECURSIVE data_arrays(_)
\* the non-empty "data" arrays of a sequence of search responses
data_arrays(responses) ==
    IF Len(responses) = 0 THEN << >>
    ELSE (IF has_rows(responses[1]) THEN <<responses[1].body.data>> ELSE << >>)
         \o data_arrays(Tail(responses))

\* The search endpoint serves its result set in pages of FullPageRows rows:
\* every page before the last is full, so after a page that is not full (and
\* after MaxPages pages) it has no more rows to serve.
more_rows(served) ==
    /\ Len(served) < MaxPages
    /\ Len(served) > 0 => Len(served[Len(served)]) = FullPageRows

(* ------------------------------------------------------------------ *)
(* src/scraper.py: SenateFilingScraper                                 *)
(* ------------------------------------------------------------------ *)

PAGINATION_SIZE == 25

VARIABLES
    search_params,      \* self.search_params
    csrf_token,         \* self.csrf_token
    session_headers,    \* self.session.headers
    pc,                 \* where scrape_filing_urls stands: "idle" outside it
    all_data,           \* the local all_data of scrape_filing_urls
    outcome,            \* what the last finished invocation returned or raised
    filters,            \* the argument of the invocation
    sent,               \* the requests the invocation has issued on the session
    received,           \* the responses to them, in order
    scrapes,            \* invocations begun on this scraper
    call,               \* a direct call of one of the module's functions
    fetch,              \* the last invocation of download_filing
    store               \* a LocalDiskStore and the files under its base_path

vars == <<search_params, csrf_token, session_headers, pc, all_data, outcome,
          filters, sent, received, scrapes, call, fetch, store>>

scraper_vars == <<search_params, csrf_token, session_headers, pc, all_data,
                  outcome, filters, sent, received, scrapes, fetch, store>>

\* what scrape_filing_urls reads and writes
scrape_vars == <<search_params, csrf_token, session_headers, pc, all_data,
                 outcome, filters, sent, received, scrapes>>

\* the responses of the search endpoint: the landing page and the agreement
\* answer the first two requests
search_responses == SubSeq(received, 3, Len(received))

\* the non-empty pages the invocation has received
pages == data_arrays(search_responses)

\* one request as the session issues it: the session's headers are merged in
Request(method, url, data, headers) ==
    [method |-> method, url |-> url, data |-> data, headers |-> headers]

NoCall == [fn |-> "none"]

\* download_filing has not been invoked
NoFetch ==
    [pc |-> "idle", filing_result |-> None, sent |-> << >>, received |-> << >>,
     outcome |-> None]

\* SenateFilingScraper.__init__ on a new session
Constructed ==
    /\ search_params = SENATE_FILING_SEARCH_PARAMS
    /\ csrf_token = None
    /\ session_headers = EmptyDict
    /\ pc = "idle"
    /\ all_data = << >>
    /\ outcome = None
    /\ filters = None
    /\ sent = << >>
    /\ received = << >>
    /\ scrapes = 0
    /\ fetch = NoFetch

Init == Constructed /\ call = NoCall /\ store = LocalDiskStore_init

\* the invocation ends by raising e
Raise(e) ==
    /\ pc' = "idle"
    /\ outcome' = Some(Raised(e))

\* extract_token with an empty token for a document without the field
extract_token_lenient(response) ==
    IF IsNone(response.token) THEN Returned("") ELSE Returned(Get(response.token))

\* soup.select_one('[name="csrfmiddlewaretoken"]')["value"]: subscripting the
\* None that select_one returns for a document without the field raises
extract_token(response) ==
    IF IsNone(response.token) THEN Raised("TypeError")
                              ELSE Returned(Get(response.token))

\* scrape_filing_urls, lines 218-223: up to the GET of the landing page
ScrapeFilingUrls(f) ==
    /\ pc = "idle"
    /\ scrapes < MaxScrapes
    /\ scrapes' = scrapes + 1
    /\ filters' = f
    /\ outcome' = None
    /\ received' = << >>
    /\ all_data' = << >>
    /\ session_headers' = dict_update(session_headers, SENATE_FILING_SEARCH_REQUEST_HEADERS)
    /\ search_params' =
          IF ~IsNone(f) THEN dict_update(search_params, to_search_params(Get(f)))
                        ELSE search_params
    /\ sent' = <<Request("GET", ROOT_URL, EmptyDict, session_headers')>>
    /\ pc' = "root"
    /\ UNCHANGED <<csrf_token, call, fetch, store>>

\* lines 227-234: the landing page's token is kept and posted with the agreement
PostAgreement(token) ==
    /\ csrf_token' = Some(token)
    /\ sent' = Append(sent,
          Request("POST", ROOT_URL,
                  ("prohibition_agreement" :> "1") @@ ("csrfmiddlewaretoken" :> token),
                  session_headers))
    /\ pc' = "agree"
    /\ UNCHANGED outcome

\* RootPageResponse with the status of the landing page not looked at
RootPageResponse_status_unchecked(response) ==
    /\ pc = "root"
    /\ received' = Append(received, response)
    /\ IF response.raised THEN
          Raise("RequestException") /\ UNCHANGED <<csrf_token, sent>>
       ELSE IF ~extract_token(response).ok THEN
          Raise(extract_token(response).error) /\ UNCHANGED <<csrf_token, sent>>
       ELSE
          PostAgreement(extract_token(response).value)
    /\ UNCHANGED <<search_params, session_headers, all_data, filters, scrapes, call, fetch, store>>

\* lines 223-234: the landing page arrives
RootPageResponse(response) ==
    /\ pc = "root"
    /\ received' = Append(received, response)
    /\ IF response.raised THEN
          Raise("RequestException") /\ UNCHANGED <<csrf_token, sent>>
       ELSE IF response.status_code # 200 THEN
          Raise("Exception") /\ UNCHANGED <<csrf_token, sent>>
       ELSE IF ~extract_token(response).ok THEN
          Raise(extract_token(response).error) /\ UNCHANGED <<csrf_token, sent>>
       ELSE
          PostAgreement(extract_token(response).value)
    /\ UNCHANGED <<search_params, session_headers, all_data, filters, scrapes, call, fetch, store>>

\* StartSearch with the header set from the token held before line 235
StartSearch_stale_header(token) ==
    /\ csrf_token' = Some(token)
    /\ session_headers' =
          dict_update(session_headers, ("X-CSRFToken" :> Get(csrf_token)))
    /\ all_data' = << >>
    /\ sent' = Append(sent, Request("POST", SEARCH_URL, search_params, session_headers'))
    /\ pc' = "search"
    /\ UNCHANGED outcome

\* lines 235-240: the token of the agreement's response replaces the first
\* one and becomes the session's X-CSRFToken header; the first search request
\* is posted
StartSearch(token) ==
    /\ csrf_token' = Some(token)
    /\ session_headers' =
          dict_update(session_headers, ("X-CSRFToken" :> Get(csrf_token')))
    /\ all_data' = << >>
    /\ sent' = Append(sent, Request("POST", SEARCH_URL, search_params, session_headers'))
    /\ pc' = "search"
    /\ UNCHANGED outcome

\* lines 228-240: the agreement's response arrives; its status is not looked at
AgreementResponse(response) ==
    /\ pc = "agree"
    /\ received' = Append(received, response)
    /\ IF response.raised THEN
          Raise("RequestException")
          /\ UNCHANGED <<csrf_token, session_headers, all_data, sent>>
       ELSE IF ~extract_token(response).ok THEN
          Raise(extract_token(response).error)
          /\ UNCHANGED <<csrf_token, session_headers, all_data, sent>>
       ELSE
          StartSearch(extract_token(response).value)
    /\ UNCHANGED <<search_params, filters, scrapes, call, fetch, store>>

\* SearchFailed with the records of the earlier pages returned
SearchFailed_partial_result(e) ==
    /\ pc' = "idle"
    /\ outcome' = Some(Returned(all_data))
    /\ UNCHANGED <<search_params, all_data, sent>>

\* lines 240-243: an exception leaves the loop and the method; all_data is lost
SearchFailed(e) ==
    /\ Raise(e)
    /\ UNCHANGED <<search_params, all_data, sent>>

\* lines 244-245 and 249-250: an empty "data" ends the loop
ScrapeFinished ==
    /\ pc' = "idle"
    /\ outcome' = Some(Returned(all_data))
    /\ UNCHANGED <<search_params, all_data, sent>>

\* NextPage with the scrape ended once a second page has been read
NextPage_page_limit(data) ==
    LET parsed == parse_filing_results(data)
    IN  IF ~parsed.ok THEN SearchFailed(parsed.error)
        ELSE IF Len(sent) >= 4 THEN
          /\ all_data' = all_data \o parsed.value
          /\ pc' = "idle"
          /\ outcome' = Some(Returned(all_data'))
          /\ UNCHANGED <<search_params, sent>>
        ELSE
          /\ all_data' = all_data \o parsed.value
          /\ search_params' =
                [search_params EXCEPT !["draw"] = @ + 1,
                                      !["start"] = @ + 25]
          /\ sent' = Append(sent,
                Request("POST", SEARCH_URL, search_params', session_headers))
          /\ UNCHANGED <<pc, outcome>>

\* NextPage with the draw counter advanced and the start offset left
NextPage_draw_only(data) ==
    LET parsed == parse_filing_results(data)
    IN  IF ~parsed.ok THEN SearchFailed(parsed.error)
        ELSE
          /\ all_data' = all_data \o parsed.value
          /\ search_params' = [search_params EXCEPT !["draw"] = @ + 1]
          /\ sent' = Append(sent,
                Request("POST", SEARCH_URL, search_params', session_headers))
          /\ UNCHANGED <<pc, outcome>>

\* NextPage with the content of the page's first record fetched at once
NextPage_eager_fetch(data) ==
    LET parsed == parse_filing_results(data)
    IN  IF ~parsed.ok THEN SearchFailed(parsed.error)
        ELSE
          /\ all_data' = all_data \o parsed.value
          /\ search_params' =
                [search_params EXCEPT !["draw"] = @ + 1,
                                      !["start"] = @ + 25]
          /\ sent' = sent
                \o (IF Len(parsed.value) = 0 THEN << >>
                    ELSE <<Request("GET", parsed.value[1].filing_url, EmptyDict,
                                   session_headers)>>)
                \o <<Request("POST", SEARCH_URL, search_params', session_headers)>>
          /\ UNCHANGED <<pc, outcome>>

\* lines 246-248 and 240: the page's records are kept, the cursor advances,
\* the next search request is posted
NextPage(data) ==
    LET parsed == parse_filing_results(data)
    IN  IF ~parsed.ok THEN SearchFailed(parsed.error)
        ELSE
          /\ all_data' = all_data \o parsed.value
          /\ search_params' =
                [search_params EXCEPT !["draw"] = @ + 1,
                                      !["start"] = @ + PAGINATION_SIZE]
          /\ sent' = Append(sent,
                Request("POST", SEARCH_URL, search_params', session_headers))
          /\ UNCHANGED <<pc, outcome>>

\* lines 240-250: one search response arrives
SearchResponse(response) ==
    /\ pc = "search"
    /\ has_rows(response) => more_rows(pages)
    /\ received' = Append(received, response)
    /\ IF response.raised THEN SearchFailed("RequestException")
       ELSE IF response.status_code # 200 THEN SearchFailed("Exception")
       ELSE IF ~response.body.json THEN SearchFailed("JSONDecodeError")
       ELSE IF "data" \notin response.body.keys THEN SearchFailed("KeyError")
       ELSE IF Len(response.body.data) = 0 THEN ScrapeFinished
       ELSE NextPage(response.body.data)
    /\ UNCHANGED <<csrf_token, session_headers, filters, scrapes, call, fetch, store>>

Next ==
    \/ \E f \in ScrapeFilters : ScrapeFilingUrls(f)
    \/ \E response \in RootResponses : RootPageResponse(response)
    \/ \E response \in AgreementResponses : AgreementResponse(response)
    \/ \E response \in SearchResponses : SearchResponse(response)

Spec == Init /\ [][Next]_vars

\* scrapes without filters, the portal answering in every way it can
NextLive ==
    \/ ScrapeFilingUrls(None)
    \/ \E response \in RootResponses : RootPageResponse(response)
    \/ \E response \in AgreementResponses : AgreementResponse(response)
    \/ \E response \in SearchResponses : SearchResponse(response)

\* every call on the session returns or raises: the portal answers each
\* request, and the caller goes on calling while scrapes are left
SpecLive == Init /\ [][NextLive]_vars /\ WF_vars(NextLive)

(* ------------------------------------------------------------------ *)
(* src/scraper.py: Filing, FilingHTML, FilingPDF, download_filing      *)
(* ------------------------------------------------------------------ *)

\* from_result with every record given to FilingHTML
from_result_always_html(filing_result) ==
    [class |-> "FilingHTML", filing_result |-> filing_result]

\* from_result with the unknown format given to FilingPDF
from_result_unknown_as_pdf(filing_result) ==
    IF filing_result.filing_format = FilingFormat_HTML
        THEN [class |-> "FilingHTML", filing_result |-> filing_result]
    ELSE [class |-> "FilingPDF", filing_result |-> filing_result]

\* Filing.from_result, lines 145-151: the handler class for a record
from_result(filing_result) ==
    IF filing_result.filing_format = FilingFormat_HTML
        THEN [class |-> "FilingHTML", filing_result |-> filing_result]
    ELSE IF filing_result.filing_format = FilingFormat_PDF
        THEN [class |-> "FilingPDF", filing_result |-> filing_result]
    ELSE [class |-> "FilingHTML", filing_result |-> filing_result]

\* FilingHTML.get_url / FilingPDF.get_url
get_url(filing) == filing.filing_result.filing_url

\* get_content without the call of raise_for_status
raise_for_status_skipped(response) == Returned(None)

\* response.raise_for_status(): HTTPError, a RequestException, for a status
\* from 400 to 599 and nothing for any other status
raise_for_status(response) ==
    IF 400 <= response.status_code /\ response.status_code < 600
        THEN Raised("HTTPError") ELSE Returned(None)

\* FilingPDF.get_content, line 202: b"" at once
FilingPDF_get_content(filing) ==
    fetch' = [pc |-> "idle", filing_result |-> Some(filing.filing_result),
              sent |-> << >>, received |-> << >>,
              outcome |-> Some(Returned(<< >>))]

\* FilingHTML.get_content, lines 183-186: session.get(self.get_url())
FilingHTML_get_content(filing) ==
    fetch' = [pc |-> "get", filing_result |-> Some(filing.filing_result),
              sent |-> <<Request("GET", get_url(filing), EmptyDict, session_headers)>>,
              received |-> << >>,
              outcome |-> None]

\* download_filing, lines 264-265: the handler is chosen and asked for the
\* content
DownloadFiling(filing_result) ==
    /\ fetch.pc = "idle"
    /\ LET filing == from_result(filing_result)
       IN  IF filing.class = "FilingPDF" THEN FilingPDF_get_content(filing)
                                         ELSE FilingHTML_get_content(filing)
    /\ UNCHANGED <<scrape_vars, call, store>>

\* DownloadResponse with the scraper's token forgotten after a failed fetch
DownloadResponse_forgets_token(response) ==
    /\ fetch.pc = "get"
    /\ fetch' =
          [fetch EXCEPT
              !.pc = "idle",
              !.received = Append(@, response),
              !.outcome =
                  IF response.raised THEN Some(Raised("RequestException"))
                  ELSE IF ~raise_for_status(response).ok
                      THEN Some(Raised(raise_for_status(response).error))
                  ELSE Some(Returned(response.content))]
    /\ csrf_token' = IF Get(fetch'.outcome).ok THEN csrf_token ELSE None
    /\ UNCHANGED <<search_params, session_headers, pc, all_data, outcome,
                   filters, sent, received, scrapes, call, store>>

\* FilingHTML.get_content, lines 186-191: the response of the GET arrives;
\* a RequestException is logged and raised again
DownloadResponse(response) ==
    /\ fetch.pc = "get"
    /\ fetch' =
          [fetch EXCEPT
              !.pc = "idle",
              !.received = Append(@, response),
              !.outcome =
                  IF response.raised THEN Some(Raised("RequestException"))
                  ELSE IF ~raise_for_status(response).ok
                      THEN Some(Raised(raise_for_status(response).error))
                  ELSE Some(Returned(response.content))]
    /\ UNCHANGED <<scrape_vars, call, store>>

\* the records a caller hands to download_filing: a structured document and
\* a paper scan as a scrape returns them, and the first with the format
\* unknown
DownloadRecords ==
    LET parsed == parse_filing_results(<<JaneRow, PaperRow>>).value
    IN  {parsed[1], parsed[2],
         [parsed[1] EXCEPT !.filing_format = FilingFormat_UNKNOWN]}

\* response.content, as a sequence of byte values
Contents == {<< >>, <<60, 104, 62>>}

\* a response to session.get(filing_url), or the call raising
\* requests.RequestException (no response)
ContentResponses ==
    {[raised |-> TRUE]}
    \cup [raised : {FALSE}, status_code : {200, 304, 404}, content : Contents]

\* the agreement is answered with a token other than the landing page's
is_rotated(response) ==
    has_token(response) /\ Get(response.token) \notin LandingTokens

\* the search endpoint fails, or serves full pages and then an empty one
is_plain(response) ==
    IF response.raised THEN FALSE
    ELSE IF response.status_code # 200 THEN TRUE
    ELSE IF is_malformed(response) THEN FALSE
    ELSE response.body.data \in {<< >>, FullPage}

\* a scrape on a portal that answers the negotiation, with content fetched
\* at any moment before, during and after it
NextDownload ==
    \/ ScrapeFilingUrls(None)
    \/ \E response \in {r \in RootResponses : has_token(r)} :
          RootPageResponse(response)
    \/ \E response \in {r \in AgreementResponses : is_rotated(r)} :
          AgreementResponse(response)
    \/ \E response \in {r \in SearchResponses : is_plain(r)} :
          SearchResponse(response)
    \/ \E filing_result \in DownloadRecords : DownloadFiling(filing_result)
    \/ \E response \in ContentResponses : DownloadResponse(response)

SpecDownload == Init /\ [][NextDownload]_vars

(* ------------------------------------------------------------------ *)
(* Direct calls of the module's functions                              *)
(* ------------------------------------------------------------------ *)

\* pieces concatenated into one string
MaxPieces == 2

RECURSIVE Strings(_, _)
\* the strings made of at most n of the given pieces
Strings(pieces, n) ==
    IF n = 0 THEN {<< >>}
    ELSE Strings(pieces, n - 1)
         \cup {s \o q : s \in Strings(pieces, n - 1), q \in pieces}

HrefPieces ==
    { <<"/">>, <<"p","t","r">>, <<"P","T","R">>, <<"p","t">>, <<"r">>,
      <<"a","n","n","u","a","l">>, <<"A","n","n","u">>, <<"A","L">>,
      <<"p","a","p","e","r">>, <<"P","a","P","e","r">>, <<"p","a","p">>,
      <<"e","r">>, <<"v","i","e","w","/">>, <<"1","2","3">> }

TextPieces ==
    { <<"a","n","n","u","a","l"," ","r","e","p","o","r","t">>,
      <<"A","n","n","u","a","l"," ","R","e","p","o","r","t">>,
      <<"A","N","N","U","A","L">>, <<" ","R","E","P","O","R","T">>,
      <<"a","n","n","u","a","l">>, <<"r","e","p","o","r","t">>,
      <<"p","e","r","i","o","d","i","c"," ","t","r","a","n","s","a","c","t","i","o","n"," ","r","e","p","o","r","t">>,
      <<"P","e","r","i","o","d","i","c"," ","T","r","a","n","s","a","c","t","i","o","n">>,
      <<" ","R","e","p","o","r","t">>, <<" ">>,
      <<" ","f","o","r"," ","C","Y"," ","2","0","2","0">>, <<"x">> }

\* the rows of the pages, for calls with a list of several rows
RowSamples ==
    {JaneRow, PaperRow, OtherRow, ShortRow, NoAnchorRow, IsoDateRow, NoSuchDayRow}

RECURSIVE Lists(_, _)
\* the lists of at most n of the given items
Lists(items, n) ==
    IF n = 0 THEN {<< >>}
    ELSE Lists(items, n - 1)
         \cup {Append(l, x) : l \in Lists(items, n - 1), x \in items}

\* Fields of well-formed rows, each with what it stands for: names as sent
\* and as stripped, hrefs with their format, anchor texts with their
\* category, dates with their calendar day.
NameSamples ==
    { [raw |-> << <<"J","a","n","e">>, <<"D","o","e">>, <<"S","e","n","a","t","o","r">> >>,
       stripped |-> << <<"J","a","n","e">>, <<"D","o","e">>, <<"S","e","n","a","t","o","r">> >>],
      [raw |-> << <<" ","A","l"," ">>, <<"R","o","e","\t">>, <<"\n"," ","V","P">> >>,
       stripped |-> << <<"A","l">>, <<"R","o","e">>, <<"V","P">> >>] }

HrefSamples ==
    { [href |-> JaneHref, format |-> FilingFormat_HTML],
      [href |-> <<"/","s","e","a","r","c","h","/","v","i","e","w","/","A","n","n","u","a","l","/","9","/">>,
       format |-> FilingFormat_HTML],
      [href |-> PaperHref, format |-> FilingFormat_PDF],
      [href |-> QueryHref, format |-> FilingFormat_PDF],
      [href |-> OtherHref, format |-> FilingFormat_UNKNOWN] }

TextSamples ==
    { [text |-> PeriodicText, type |-> FilingType_PERIODIC_TRANSACTION_REPORT],
      [text |-> AnnualText, type |-> FilingType_ANNUAL_REPORT],
      [text |-> OtherText, type |-> FilingType_UNKNOWN] }

DateSamples ==
    { [text |-> <<"0","1","/","1","5","/","2","0","2","3">>, date |-> datetime(2023, 1, 15, 0, 0, 0)],
      [text |-> <<"2","/","9","/","2","0","2","1">>, date |-> datetime(2021, 2, 9, 0, 0, 0)],
      [text |-> <<"0","2","/","2","9","/","2","0","2","4">>, date |-> datetime(2024, 2, 29, 0, 0, 0)],
      [text |-> <<"1","2","/","3","1","/","1","9","9","9">>, date |-> datetime(1999, 12, 31, 0, 0, 0)] }

\* the well-formed rows of five fields, each with the record it stands for
WellFormedRows ==
    { [row |-> <<n.raw[1], n.raw[2], n.raw[3], anchor(h.href, t.text), d.text>>,
       record |-> FilingResult(n.stripped[1], n.stripped[2], n.stripped[3],
                               d.date, t.type, BASE_URL \o h.href, h.format)] :
      n \in NameSamples, h \in HrefSamples, t \in TextSamples, d \in DateSamples }

FilingTypeLists ==
    { None, Some(<< >>), Some(<<FilingType_UNKNOWN>>),
      Some(<<FilingType_PERIODIC_TRANSACTION_REPORT>>),
      Some(<<FilingType_ANNUAL_REPORT>>),
      Some(<<FilingType_PERIODIC_TRANSACTION_REPORT, FilingType_ANNUAL_REPORT>>),
      Some(<<FilingType_ANNUAL_REPORT, FilingType_UNKNOWN,
             FilingType_PERIODIC_TRANSACTION_REPORT>>) }

StartDates == {None, Some(October1), Some(datetime(2012, 1, 9, 5, 6, 7))}

EndDates == {None, Some(October31), Some(October31Night),
             Some(datetime(2030, 12, 1, 0, 0, 0))}

FilterSamples ==
    {FilingSearchFilters(ts, s, e) : ts \in FilingTypeLists, s \in StartDates, e \in EndDates}

\* a call of fn with arg, not yet returned
Call(fn, arg) == [fn |-> fn, arg |-> arg, ret |-> None]

Calls ==
    {Call("parse_filing_format", h) : h \in Strings(HrefPieces, MaxPieces)}
    \cup {Call("parse_filing_type", s) : s \in Strings(TextPieces, MaxPieces)}
    \cup {Call("parse_filing_results", <<w.row>>) : w \in WellFormedRows}
    \cup {Call("parse_filing_results", l) : l \in Lists(RowSamples, MaxRows)}
    \cup {Call("to_search_params", f) : f \in FilterSamples}

\* the call is of fn and has not returned
pending(fn) == call.fn = fn /\ IsNone(call.ret)

\* the call of fn has returned
returned(fn) == call.fn = fn /\ ~IsNone(call.ret)

InitFn == Constructed /\ call \in Calls /\ store = LocalDiskStore_init

CallParseFilingFormat ==
    /\ pending("parse_filing_format")
    /\ call' = [call EXCEPT !.ret = Some(Returned(parse_filing_format(call.arg)))]
    /\ UNCHANGED scraper_vars

CallParseFilingType ==
    /\ pending("parse_filing_type")
    /\ call' = [call EXCEPT !.ret = Some(Returned(parse_filing_type(call.arg)))]
    /\ UNCHANGED scraper_vars

CallParseFilingResults ==
    /\ pending("parse_filing_results")
    /\ call' = [call EXCEPT !.ret = Some(parse_filing_results(call.arg))]
    /\ UNCHANGED scraper_vars

CallToSearchParams ==
    /\ pending("to_search_params")
    /\ call' = [call EXCEPT !.ret = Some(Returned(to_search_params(call.arg)))]
    /\ UNCHANGED scraper_vars

NextFn ==
    \/ CallParseFilingFormat
    \/ CallParseFilingType
    \/ CallParseFilingResults
    \/ CallToSearchParams

SpecFn == InitFn /\ [][NextFn]_vars

(* ------------------------------------------------------------------ *)
(* src/data_store.py: LocalDiskStore                                   *)
(* ------------------------------------------------------------------ *)

\* calls that write, made on one store
MaxStores == 2

\* the filing of Jane Doe's row, as parse_filing_results returns it
JanePtr ==
    FilingResult(<<"J","a","n","e">>, <<"D","o","e">>, <<"S","e","n","a","t","o","r">>,
                 datetime(2023, 1, 15, 0, 0, 0),
                 FilingType_PERIODIC_TRANSACTION_REPORT,
                 absolute_url(JaneHref), FilingFormat_HTML)

\* the same URL, scraped again after the office of the row has changed
JaneMoved == [JanePtr EXCEPT !.office_name = << >>]

\* a filing of the same senator on the same day under another URL
JaneAnnual ==
    [JanePtr EXCEPT !.filing_type = FilingType_ANNUAL_REPORT,
                    !.filing_url = BASE_URL \o <<"/","s","e","a","r","c","h","/","v","i","e","w","/","a","n","n","u","a","l","/","a","b","c","1","2","3","/">>]

\* a filing on paper of another senator
PaperFiling ==
    FilingResult(<<"A","l">>, <<"O","'","R","o","e">>, <<"S","e","n","a","t","o","r">>,
                 datetime(2021, 2, 9, 0, 0, 0),
                 FilingType_ANNUAL_REPORT,
                 absolute_url(PaperHref), FilingFormat_PDF)

StoreRecords == {JanePtr, JaneMoved, JaneAnnual, PaperFiling}

\* the lists handed to store_filing_metadata: none, one filing, one URL
\* twice in either order, two URLs
FilingLists ==
    {<< >>, <<JanePtr>>, <<JaneMoved>>, <<JaneAnnual>>, <<PaperFiling>>,
     <<JanePtr, JaneMoved>>, <<JaneMoved, JanePtr>>, <<JanePtr, PaperFiling>>}

\* datetime.now() of a call: the model counts time in calls on the store
now == Len(store.calls) + 1

\* the cache keyed by the name of the content file
cache_key_filename(filing) == get_filing_filename(filing)

\* line 233: the key of a filing in the metadata cache
cache_key(filing) == filing.filing_url

RECURSIVE cache_filings(_, _, _)
\* lines 231-233: each filing of the list is put in the cache, in order
cache_filings(cache, filings, at) ==
    IF Len(filings) = 0 THEN cache
    ELSE cache_filings(dict_set(cache, cache_key(filings[1]),
                                filing_to_dict(filings[1], at)),
                       Tail(filings), at)

\* store.store_filing_metadata(filings); writable is whether open() on the
\* metadata file succeeds, and OSError leaves the file as it was
StoreFilingMetadata(filings, writable) ==
    /\ Len(store.calls) < MaxStores
    /\ LET cache == cache_filings(store.metadata_cache, filings, now)
       IN  store' =
             [store EXCEPT
                !.metadata_cache = cache,
                !.metadata_file = IF writable THEN Some(cache) ELSE @,
                !.outcome = Some(IF writable THEN Returned(TRUE)
                                             ELSE Raised("StorageException")),
                !.calls = Append(@, [op |-> "store_filing_metadata",
                                     filings |-> filings])]
    /\ UNCHANGED <<scrape_vars, call, fetch>>

\* lines 260-263: the size and the moment are added to the cached dictionary
content_info(data, content, at) ==
    [k \in (DOMAIN data) \cup {"content_size", "content_stored_at"} |->
        IF k = "content_size" THEN Len(content)
        ELSE IF k = "content_stored_at" THEN at
        ELSE data[k]]

\* store.store_filing_content(filing, content); fault names the open() that
\* raises OSError: the content file's ("write"), the metadata file's ("save")
\* or none
StoreFilingContent(filing, content, fault) ==
    /\ Len(store.calls) < MaxStores
    /\ fault = "save" => filing.filing_url \in dict_keys(store.metadata_cache)
    /\ LET filename == get_filing_filename(filing)
           cached   == filing.filing_url \in dict_keys(store.metadata_cache)
           cache    == IF cached
                           THEN dict_set(store.metadata_cache, filing.filing_url,
                                         content_info(dict_get(store.metadata_cache,
                                                               filing.filing_url),
                                                      content, now))
                           ELSE store.metadata_cache
           entry    == [op |-> "store_filing_content", filing |-> filing,
                        content |-> content, written |-> fault # "write"]
       IN  IF fault = "write"
               THEN store' = [store EXCEPT
                                !.outcome = Some(Raised("StorageException")),
                                !.calls = Append(@, entry)]
               ELSE store' =
                      [store EXCEPT
                         !.content_dir = dict_update(@, filename :> content),
                         !.metadata_cache = cache,
                         !.metadata_file =
                             IF cached /\ fault = "none" THEN Some(cache) ELSE @,
                         !.outcome = Some(IF fault = "save"
                                              THEN Raised("StorageException")
                                              ELSE Returned(TRUE)),
                         !.calls = Append(@, entry)]
    /\ UNCHANGED <<scrape_vars, call, fetch>>

\* self.get_filing_content(filing): the bytes of the file, None if there is
\* no such file or if reading it raises OSError (readable is FALSE)
get_filing_content(self, filing, readable) ==
    LET filename == get_filing_filename(filing)
    IN  IF filename \notin DOMAIN self.content_dir THEN None
        ELSE IF ~readable THEN None
        ELSE Some(self.content_dir[filename])

\* self.exists(filing)
exists(self, filing) == get_filing_filename(filing) \in DOMAIN self.content_dir

\* self.list_stored_filings(): the records of the cache in its order, or
\* StorageException raised if a dictionary does not convert
list_stored_filings(self) ==
    LET cache   == self.metadata_cache
        filings == [i \in 1..Len(cache) |-> dict_to_filing(cache[i].value)]
    IN  IF \E i \in 1..Len(filings) : ~filings[i].ok
            THEN Raised("StorageException")
            ELSE Returned([i \in 1..Len(filings) |-> filings[i].value])

\* calls on one store, in any order and with any of the faults of the disk
NextStore ==
    \/ \E filings \in FilingLists, writable \in BOOLEAN :
          StoreFilingMetadata(filings, writable)
    \/ \E filing \in StoreRecords, content \in Contents,
          fault \in {"none", "write", "save"} :
          StoreFilingContent(filing, content, fault)

SpecStore == Init /\ [][NextStore]_vars

(* ------------------------------------------------------------------ *)
(* Properties                                                          *)
(* ------------------------------------------------------------------ *)

\* the invocation has returned a list
has_returned == pc = "idle" /\ outcome # None /\ Get(outcome).ok

\* the invocation has raised an exception
has_raised == pc = "idle" /\ outcome # None /\ ~Get(outcome).ok

\* the requests of the invocation to the search endpoint, in order
SearchRequests == SelectSeq(sent, LAMBDA r : r.url = SEARCH_URL)

\* the response is a success whose "data" array is empty
is_empty_page(response) ==
    IF response.raised THEN FALSE
    ELSE IF response.status_code # 200 THEN FALSE
    ELSE IF ~response.body.json THEN FALSE
    ELSE IF "data" \notin response.body.keys THEN FALSE
    ELSE Len(response.body.data) = 0

\* the response has a non-success status, or a body that is not JSON with a
\* "data" field
is_search_failure(response) ==
    IF response.raised THEN FALSE
    ELSE IF response.status_code # 200 THEN TRUE
    ELSE IF ~response.body.json THEN TRUE
    ELSE "data" \notin response.body.keys

\* the response is a document without the CSRF token field
token_missing(response) == ~response.raised /\ IsNone(response.token)

\* C1: pagination stops exactly when a search response's data array is
\* empty; after every non-empty page the next request carries draw + 1 and
\* start + 25; and against a server that returns 3 pages of 25 rows and then
\* an empty page, exactly 4 search requests are issued, with start
\* 0, 25, 50, 75 and draw 1, 2, 3, 4.
C1_Pagination ==
    /\ has_returned => is_empty_page(received[Len(received)])
    /\ \A i \in 3..Len(received) :
          /\ is_empty_page(received[i]) => has_returned /\ Len(sent) = i
          /\ has_rows(received[i]) => Len(sent) > i
    /\ \A k \in 2..Len(SearchRequests) :
          /\ SearchRequests[k].data["draw"] = SearchRequests[k - 1].data["draw"] + 1
          /\ SearchRequests[k].data["start"] = SearchRequests[k - 1].data["start"] + 25
    /\ (has_returned /\ pages = <<FullPage, FullPage, FullPage>>) =>
          /\ Len(SearchRequests) = 4
          /\ \A k \in 1..4 :
                /\ SearchRequests[k].data["start"] = 25 * (k - 1)
                /\ SearchRequests[k].data["draw"] = k

\* C2: the invocation's first request is the GET of the landing page, its
\* second the POST of the agreement with prohibition_agreement=1 and the
\* token of the GET's response, and every request to the search endpoint
\* comes after both responses and carries, as X-CSRFToken, the token of the
\* POST's response.
C2_NegotiationOrder ==
    /\ Len(sent) >= 1 => sent[1].method = "GET" /\ sent[1].url = ROOT_URL
    /\ Len(sent) >= 2 =>
          /\ sent[2].method = "POST"
          /\ sent[2].url = ROOT_URL
          /\ sent[2].data = ("prohibition_agreement" :> "1")
                            @@ ("csrfmiddlewaretoken" :> Get(received[1].token))
    /\ \A i \in 1..Len(sent) :
          sent[i].url = SEARCH_URL =>
              /\ i >= 3
              /\ sent[i].method = "POST"
              /\ ~token_missing(received[2])
              /\ "X-CSRFToken" \in DOMAIN sent[i].headers
              /\ sent[i].headers["X-CSRFToken"] = Get(received[2].token)

\* a second search request is out, and the portal rotated the token
C2_Witness ==
    /\ Len(sent) >= 4
    /\ sent[4].url = SEARCH_URL
    /\ Get(received[1].token) # Get(received[2].token)

\* C3: when the landing page, or the agreement's response, lacks the CSRF
\* token field, the invocation raises and has issued no request to the
\* search endpoint (it issued nothing after the request so answered).
C3_MissingTokenAborts ==
    \A i \in 1..Len(received) :
        (i <= 2 /\ token_missing(received[i])) =>
            /\ has_raised
            /\ Len(sent) = i
            /\ \A j \in 1..Len(sent) : sent[j].url # SEARCH_URL

\* a landing page served with status 200 and no token field made the
\* invocation raise
C3_Witness ==
    /\ Len(received) = 1
    /\ token_missing(received[1])
    /\ received[1].status_code = 200
    /\ has_raised

\* C4: a search response with a non-success status, or a body that is not
\* JSON with a "data" field, is the last the invocation receives: the
\* invocation raises (so returns no record, those of earlier pages
\* included) and issues no further request.
C4_SearchFailureAborts ==
    \A i \in 3..Len(received) :
        is_search_failure(received[i]) =>
            /\ i = Len(received)
            /\ Len(sent) = i
            /\ has_raised

\* a search request failed after records had been parsed from an earlier page
C4_Witness ==
    /\ Len(received) >= 4
    /\ is_search_failure(received[Len(received)])
    /\ Len(all_data) > 0
    /\ has_raised

JaneRecord ==
    FilingResult(<<"J","a","n","e">>, <<"D","o","e">>, <<"S","e","n","a","t","o","r">>,
                 datetime(2023, 1, 15, 0, 0, 0),
                 "periodic_transaction_report",
                 <<"h","t","t","p","s",":","/","/","e","f","d","s","e","a","r","c","h",".","s","e","n","a","t","e",".","g","o","v","/","s","e","a","r","c","h","/","v","i","e","w","/","p","t","r","/","a","b","c","1","2","3","/">>,
                 "html")

PaperRecord ==
    FilingResult(<<"A","l">>, <<"R","o","e">>, <<"S","e","n","a","t","o","r">>,
                 datetime(2021, 2, 9, 0, 0, 0),
                 "annual_report",
                 <<"h","t","t","p","s",":","/","/","e","f","d","s","e","a","r","c","h",".","s","e","n","a","t","e",".","g","o","v","/","s","e","a","r","c","h","/","v","i","e","w","/","p","a","p","e","r","/","0","F","/">>,
                 "pdf")

OtherRecord ==
    FilingResult(<<"A","l">>, <<"R","o","e">>, << >>,
                 datetime(2024, 12, 31, 0, 0, 0),
                 "unknown",
                 <<"h","t","t","p","s",":","/","/","e","f","d","s","e","a","r","c","h",".","s","e","n","a","t","e",".","g","o","v","/","s","e","a","r","c","h","/","v","i","e","w","/","e","x","t","/","7","/">>,
                 "unknown")

\* the records of the rows of a page that are well formed, in row order
RecordsOf(page) ==
    IF page = FullPage THEN [i \in 1..25 |-> JaneRecord]
    ELSE IF page = MixedPage THEN <<JaneRecord, PaperRecord, OtherRecord>>
    ELSE << >>

RECURSIVE RecordsOfAll(_)
RecordsOfAll(ps) ==
    IF Len(ps) = 0 THEN << >> ELSE RecordsOf(ps[1]) \o RecordsOfAll(Tail(ps))

\* C5: a page whose rows include rows of fewer than 5 fields, rows whose
\* field 3 holds no anchor and rows whose field 4 is no MM/DD/YYYY date never
\* makes the invocation raise; those rows are skipped, every other row of
\* the page yields its record, and the next search request is issued.
C5_BadRowsSkipped ==
    /\ \A i \in 3..Len(received) :
          has_rows(received[i]) =>
              /\ Len(sent) > i
              /\ i = Len(received) => pc = "search"
    /\ (pc = "search" \/ has_returned) => all_data = RecordsOfAll(pages)
    /\ has_returned => Get(outcome).value = all_data

\* a page mixing good and bad rows came after a full page, and the
\* invocation returned
C5_Witness ==
    /\ has_returned
    /\ pages = <<FullPage, MixedPage>>
    /\ Len(Get(outcome).value) = 28

\* the upper-case form of a lower-case letter; any other character is itself
upper_of(c) ==
    IF \E u \in DOMAIN ascii_lowercase : ascii_lowercase[u] = c
        THEN CHOOSE u \in DOMAIN ascii_lowercase : ascii_lowercase[u] = c
        ELSE c

\* s contains the lower-case word in some mix of letter cases
in_any_case(word, s) ==
    \E off \in 0..(Len(s) - Len(word)) :
        \A k \in 1..Len(word) : s[off + k] \in {word[k], upper_of(word[k])}

has_ptr_or_annual(href) ==
    \/ in_any_case(<<"p","t","r">>, href)
    \/ in_any_case(<<"a","n","n","u","a","l">>, href)

has_paper(href) == in_any_case(<<"p","a","p","e","r">>, href)

\* the value a returned call returned
ret_value == Get(call.ret).value

\* C6 as stated: HTML when the href contains "ptr" or "annual" in any letter
\* case, PDF when it contains "paper" in any letter case, unknown otherwise.
C6_FormatOfHref ==
    returned("parse_filing_format") =>
        /\ has_ptr_or_annual(call.arg) => ret_value = "html"
        /\ has_paper(call.arg) => ret_value = "pdf"
        /\ (~has_ptr_or_annual(call.arg) /\ ~has_paper(call.arg)) => ret_value = "unknown"

\* C6 as amended: HTML when the href contains "ptr" or "annual" in any
\* letter case; PDF when it contains "paper" in any letter case and neither
\* "ptr" nor "annual"; unknown otherwise.
C6_FormatOfHrefFirstMatch ==
    returned("parse_filing_format") =>
        /\ has_ptr_or_annual(call.arg) => ret_value = "html"
        /\ (has_paper(call.arg) /\ ~has_ptr_or_annual(call.arg)) => ret_value = "pdf"
        /\ (~has_ptr_or_annual(call.arg) /\ ~has_paper(call.arg)) => ret_value = "unknown"

\* an href with "paper" in mixed case and "PTR" in upper case was classified
C6_Witness ==
    /\ returned("parse_filing_format")
    /\ call.arg = <<"P","a","P","e","r","P","T","R">>
    /\ ret_value = "html"

has_annual_report(text) ==
    in_any_case(<<"a","n","n","u","a","l"," ","r","e","p","o","r","t">>, text)

has_periodic_report(text) ==
    in_any_case(<<"p","e","r","i","o","d","i","c"," ","t","r","a","n","s","a","c","t","i","o","n"," ","r","e","p","o","r","t">>, text)

\* a row whose anchor text names no known category still yields its record
UnknownCategoryKept ==
    \A w \in WellFormedRows :
        (returned("parse_filing_results") /\ call.arg = <<w.row>>
            /\ w.record.filing_type = "unknown") =>
                Get(call.ret) = Returned(<<w.record>>)

\* C7 as stated: the annual-report category when the text contains "annual
\* report" in any letter case, the periodic-transaction category when it
\* contains "periodic transaction report" in any letter case, unknown
\* otherwise; and a row of unknown category still yields a record.
C7_TypeOfText ==
    /\ returned("parse_filing_type") =>
          /\ has_annual_report(call.arg) => ret_value = "annual_report"
          /\ has_periodic_report(call.arg) => ret_value = "periodic_transaction_report"
          /\ (~has_annual_report(call.arg) /\ ~has_periodic_report(call.arg))
                => ret_value = "unknown"
    /\ UnknownCategoryKept

\* C7 as amended: the annual-report category when the text contains "annual
\* report" in any letter case; the periodic-transaction category when it
\* contains "periodic transaction report" in any letter case and not "annual
\* report"; unknown otherwise; and a row of unknown category still yields a
\* record.
C7_TypeOfTextFirstMatch ==
    /\ returned("parse_filing_type") =>
          /\ has_annual_report(call.arg) => ret_value = "annual_report"
          /\ (has_periodic_report(call.arg) /\ ~has_annual_report(call.arg))
                => ret_value = "periodic_transaction_report"
          /\ (~has_annual_report(call.arg) /\ ~has_periodic_report(call.arg))
                => ret_value = "unknown"
    /\ UnknownCategoryKept

\* a text naming both categories was classified
C7_Witness ==
    /\ returned("parse_filing_type")
    /\ has_annual_report(call.arg)
    /\ has_periodic_report(call.arg)
    /\ ret_value = "annual_report"

\* C8: a well-formed row of five fields yields exactly one record, with the
\* names and the office of fields 0, 1, 2, the category of the anchor text,
\* the format of the href, the day of field 4 and the URL BASE_URL + href;
\* the row of Jane Doe yields periodic-transaction, structured-document,
\* 2023-01-15 and BASE_URL + /search/view/ptr/abc123/.
C8_RowToRecord ==
    returned("parse_filing_results") =>
        /\ \A w \in WellFormedRows :
              call.arg = <<w.row>> => Get(call.ret) = Returned(<<w.record>>)
        /\ call.arg = <<JaneRow>> => Get(call.ret) = Returned(<<JaneRecord>>)

\* the row of Jane Doe was parsed
C8_Witness ==
    /\ returned("parse_filing_results")
    /\ call.arg = <<JaneRow>>
    /\ Len(ret_value) = 1

RECURSIVE split_ids(_)
\* the numbers of a list "n, n, ..." of decimal numbers
split_ids(s) ==
    IF Len(s) = 0 THEN << >>
    ELSE LET commas == {i \in 1..Len(s) : s[i] = ","}
         IN  IF commas = {} THEN <<int_of(s)>>
             ELSE LET c == SetMin(commas)
                  IN  <<int_of(SubSeq(s, 1, c - 1))>>
                      \o (IF c + 1 <= Len(s) /\ s[c + 1] = " "
                             THEN split_ids(SubSeq(s, c + 2, Len(s)))
                             ELSE <<-1>>)

\* the numbers of a bracketed list "[n, n, ...]"
id_list(s) ==
    IF Len(s) >= 2 /\ s[1] = "[" /\ s[Len(s)] = "]"
        THEN split_ids(SubSeq(s, 2, Len(s) - 1))
        ELSE <<-1>>

\* the categories of a list that have an ID
known_types(types) == SelectSeq(types, LAMBDA x : x \in DOMAIN REPORT_TYPE_TO_ID)

\* s reads MM/DD/YYYY HH:MM:SS and names the instant dt
reads_as(s, dt) ==
    /\ Len(s) = 19
    /\ s[3] = "/" /\ s[6] = "/" /\ s[11] = " " /\ s[14] = ":" /\ s[17] = ":"
    /\ int_of(SubSeq(s, 1, 2)) = dt.month
    /\ int_of(SubSeq(s, 4, 5)) = dt.day
    /\ int_of(SubSeq(s, 7, 10)) = dt.year
    /\ int_of(SubSeq(s, 12, 13)) = dt.hour
    /\ int_of(SubSeq(s, 15, 16)) = dt.minute
    /\ int_of(SubSeq(s, 18, 19)) = dt.second

\* C9: for categories = [periodic-transaction] and the bounds 2025-10-01
\* 00:00:00 and 2025-10-31 23:59:59, report_types is "[11]" and the dates are
\* "10/01/2025 00:00:00" and "10/31/2025 23:59:59"; in general report_types
\* lists the IDs of the requested categories in the order requested, and a
\* bound given is written as MM/DD/YYYY HH:MM:SS.
C9_SearchParams ==
    returned("to_search_params") =>
        /\ call.arg = OctoberFilters =>
              ret_value = ("report_types" :> <<"[","1","1","]">>)
                  @@ ("submitted_start_date" :> <<"1","0","/","0","1","/","2","0","2","5"," ","0","0",":","0","0",":","0","0">>)
                  @@ ("submitted_end_date" :> <<"1","0","/","3","1","/","2","0","2","5"," ","2","3",":","5","9",":","5","9">>)
        /\ call.arg = MainFilters =>
              ret_value = ("report_types" :> <<"[","1","1","]">>)
                  @@ ("submitted_start_date" :> <<"1","0","/","0","1","/","2","0","2","5"," ","0","0",":","0","0",":","0","0">>)
                  @@ ("submitted_end_date" :> <<"1","0","/","3","1","/","2","0","2","5"," ","0","0",":","0","0",":","0","0">>)
        /\ (~IsNone(call.arg.filing_types)
              /\ Len(known_types(Get(call.arg.filing_types))) > 0) =>
              /\ "report_types" \in DOMAIN ret_value
              /\ id_list(ret_value["report_types"]) =
                    [i \in 1..Len(known_types(Get(call.arg.filing_types))) |->
                        REPORT_TYPE_TO_ID[known_types(Get(call.arg.filing_types))[i]]]
        /\ ~IsNone(call.arg.start_date) =>
              /\ "submitted_start_date" \in DOMAIN ret_value
              /\ reads_as(ret_value["submitted_start_date"], Get(call.arg.start_date))
        /\ ~IsNone(call.arg.end_date) =>
              /\ "submitted_end_date" \in DOMAIN ret_value
              /\ reads_as(ret_value["submitted_end_date"], Get(call.arg.end_date))

\* the filters for the whole of October 2025 were translated
C9_Witness ==
    /\ returned("to_search_params")
    /\ call.arg = OctoberFilters
    /\ DOMAIN ret_value = {"report_types", "submitted_start_date", "submitted_end_date"}

\* the query parameters the fields given in the filters argument stand for
supplied(f) ==
    IF IsNone(f) THEN {}
    ELSE (IF IsNone(Get(f).filing_types) THEN {} ELSE {"report_types"})
         \cup (IF IsNone(Get(f).start_date) THEN {} ELSE {"submitted_start_date"})
         \cup (IF IsNone(Get(f).end_date) THEN {} ELSE {"submitted_end_date"})

\* C10: the parameters of the invocation's first search request differ from
\* SENATE_FILING_SEARCH_PARAMS only in the keys of the filter fields that
\* were supplied; with no filters they equal the defaults.
C10_DefaultsUntouched ==
    Len(SearchRequests) >= 1 =>
        /\ DOMAIN SearchRequests[1].data = DOMAIN SENATE_FILING_SEARCH_PARAMS
        /\ \A k \in DOMAIN SENATE_FILING_SEARCH_PARAMS :
              k \notin supplied(filters) =>
                  SearchRequests[1].data[k] = SENATE_FILING_SEARCH_PARAMS[k]
        /\ IsNone(filters) => SearchRequests[1].data = SENATE_FILING_SEARCH_PARAMS

\* a call of download_filing has been made with a record of the format
fetched(format) ==
    /\ fetch.filing_result # None
    /\ Get(fetch.filing_result).filing_format = format

\* the call of download_filing has ended
fetch_done == fetch.pc = "idle" /\ fetch.outcome # None

\* C11: download_filing for a record of the paper-scan format returns the
\* empty byte sequence at once and issues no request on the session.
C11_PaperScanEmpty ==
    fetched("pdf") =>
        /\ fetch_done
        /\ fetch.outcome = Some(Returned(<< >>))
        /\ fetch.sent = << >>
        /\ fetch.received = << >>

\* download_filing was called with the paper filing a scrape returned
C11_Witness ==
    /\ fetched("pdf")
    /\ Get(fetch.filing_result) = PaperRecord
    /\ fetch_done

\* what get_content makes of the response to its GET
content_or_error(response) ==
    IF response.raised THEN Raised("RequestException")
    ELSE IF response.status_code >= 400 THEN Raised("HTTPError")
    ELSE Returned(response.content)

\* the call issued one GET to the record's URL and nothing else, and ended,
\* if it has, with the body of the response or the error
one_get_of_url ==
    /\ Len(fetch.sent) = 1
    /\ fetch.sent[1].method = "GET"
    /\ fetch.sent[1].url = Get(fetch.filing_result).filing_url
    /\ fetch.sent[1].data = EmptyDict
    /\ Len(fetch.received) <= 1
    /\ fetch_done <=> Len(fetch.received) = 1
    /\ fetch_done => fetch.outcome = Some(content_or_error(fetch.received[1]))

\* C12: the dispatch covers the three formats, and a record of unknown
\* format is handled exactly like a structured-document record: one GET to
\* the record's URL, the body returned; the request and the result are the
\* same function of the URL and the response for both formats.
C12_UnknownAsDocument ==
    /\ fetch.filing_result # None =>
          Get(fetch.filing_result).filing_format \in {"html", "pdf", "unknown"}
    /\ (fetched("unknown") \/ fetched("html")) => one_get_of_url

\* the record of Jane Doe, its format set to unknown, was fetched with success
C12_Witness ==
    /\ fetched("unknown")
    /\ Get(fetch.filing_result).filing_url = JaneRecord.filing_url
    /\ fetch_done
    /\ fetch.outcome = Some(Returned(<<60, 104, 62>>))

\* C13: download_filing for a structured-document record issues exactly one
\* GET to the record's URL; when the response is ok (a status below 400, for
\* which raise_for_status does not raise) it returns the body unchanged; on a
\* transport error or a status from 400 up it raises, returns no bytes and
\* sends nothing more.
C13_DocumentFetch ==
    fetched("html") =>
        /\ Len(fetch.sent) = 1
        /\ fetch.sent[1].method = "GET"
        /\ fetch.sent[1].url = Get(fetch.filing_result).filing_url
        /\ fetch_done =>
              /\ Len(fetch.received) = 1
              /\ LET response == fetch.received[1]
                 IN  IF response.raised THEN ~Get(fetch.outcome).ok
                     ELSE IF response.status_code >= 400 THEN ~Get(fetch.outcome).ok
                     ELSE /\ Get(fetch.outcome).ok
                          /\ Get(fetch.outcome).value = response.content

\* the fetch of the record of Jane Doe was answered with status 404
C13_Witness ==
    /\ fetched("html")
    /\ Get(fetch.filing_result) = JaneRecord
    /\ fetch_done
    /\ ~fetch.received[1].raised
    /\ fetch.received[1].status_code = 404
    /\ fetch.outcome = Some(Raised("HTTPError"))

\* C14: the cursor belongs to one invocation: the first search request of
\* every invocation of scrape_filing_urls, repeated invocations on one
\* scraper included, carries draw = 1 and start = 0.
C14_CursorPerInvocation ==
    Len(SearchRequests) >= 1 =>
        /\ SearchRequests[1].data["draw"] = 1
        /\ SearchRequests[1].data["start"] = 0

\* C15: content is fetched on demand only: the requests of a successful
\* invocation of scrape_filing_urls are one GET of the landing page, one
\* POST of the agreement and then one or more POSTs to the search endpoint;
\* no request of an invocation goes to a filing URL, and the requests of
\* download_filing go to the filing URL only.
C15_NoFetchWhilePaging ==
    /\ \A i \in 1..Len(sent) : sent[i].url \in {ROOT_URL, SEARCH_URL}
    /\ has_returned =>
          /\ Len(sent) >= 3
          /\ sent[1].method = "GET" /\ sent[1].url = ROOT_URL
          /\ sent[2].method = "POST" /\ sent[2].url = ROOT_URL
          /\ \A i \in 3..Len(sent) :
                sent[i].method = "POST" /\ sent[i].url = SEARCH_URL
    /\ \A i \in 1..Len(fetch.sent) :
          /\ fetch.sent[i].url = Get(fetch.filing_result).filing_url
          /\ fetch.sent[i].url \notin {ROOT_URL, SEARCH_URL}

\* a scrape that read two pages of filings returned, and content was fetched
\* while it ran or after it
C15_Witness ==
    /\ has_returned
    /\ Len(pages) = 2
    /\ Len(fetch.sent) = 1

\* the first position of s at or after p that holds a character of stops,
\* or Len(s) + 1
first_of(s, stops, p) ==
    LET at == {i \in p..Len(s) : s[i] \in stops}
    IN  IF at = {} THEN Len(s) + 1 ELSE SetMin(at)

\* the path of an absolute URL scheme://authority/path?query#fragment
url_path(url) ==
    LET colon == first_of(url, {":"}, 1)
        authority == colon + 3
        path == first_of(url, {"/", "?", "#"}, authority)
        end == first_of(url, {"?", "#"}, path)
    IN  SubSeq(url, path, end - 1)

\* the format the words of a string name
format_named(s) ==
    IF has_ptr_or_annual(s) THEN "html"
    ELSE IF has_paper(s) THEN "pdf"
    ELSE "unknown"

\* C16: every record parse_filing_results produces has the format that
\* parse_filing_format gives for the path of the record's URL, so that two
\* records it produces with equal URLs have equal formats whatever the other
\* fields of their rows are.
C16_FormatFromPath ==
    (returned("parse_filing_results") /\ Get(call.ret).ok) =>
        /\ \A i \in 1..Len(ret_value) :
              ret_value[i].filing_format = format_named(url_path(ret_value[i].filing_url))
        /\ \A i, j \in 1..Len(ret_value) :
              ret_value[i].filing_url = ret_value[j].filing_url =>
                  ret_value[i].filing_format = ret_value[j].filing_format

\* the search requests of the invocation follow from the first: the same
\* parameters and headers, draw and start advanced by the pages read
search_requests_follow ==
    \A k \in 1..Len(SearchRequests) :
        /\ SearchRequests[k].data =
              [SearchRequests[1].data EXCEPT !["draw"] = @ + (k - 1),
                                             !["start"] = @ + 25 * (k - 1)]
        /\ SearchRequests[k].headers = SearchRequests[1].headers

\* C17: a content fetch, whether it succeeds or fails, leaves the cursor,
\* the query parameters, the CSRF token and the session's headers as they
\* were, and the scrape as it stood; so with fetches made at any moment of a
\* scrape the search requests sent and the records returned are those of
\* the scrape alone.
C17_FetchLeavesSession ==
    /\ [][fetch' # fetch =>
            UNCHANGED <<search_params, csrf_token, session_headers, pc,
                        all_data, outcome, sent, received>>]_vars
    /\ [](search_requests_follow)
    /\ []((pc = "search" \/ has_returned) => all_data = RecordsOfAll(pages))
    /\ [](has_returned => Get(outcome).value = RecordsOfAll(pages))

\* a fetch is in flight between two page requests of a scrape
C17_Witness ==
    /\ pc = "search"
    /\ Len(pages) = 1
    /\ fetch.pc = "get"
    /\ "X-CSRFToken" \in DOMAIN fetch.sent[1].headers

\* C18: an invocation of scrape_filing_urls ends once the portal has
\* answered with an empty page or a failure; it returns only on an empty
\* "data" array, and after every non-empty page, however many came before,
\* it sends the next request: no count of rows or pages ends it.
C18_EndsOnEmptyPage ==
    /\ [](has_returned => is_empty_page(received[Len(received)]))
    /\ [](\A i \in 3..Len(received) :
            has_rows(received[i]) =>
                /\ Len(sent) > i
                /\ i = Len(received) => pc = "search")
    /\ (pc # "idle") ~> (pc = "idle")

\* an invocation returned after as many pages as the portal serves
C18_Witness ==
    /\ has_returned
    /\ Len(pages) >= 3
    /\ is_empty_page(received[Len(received)])

\* the records of a row: one of a row that is well formed, none of another
records_of_row(row) ==
    IF row = JaneRow THEN <<JaneRecord>>
    ELSE IF row = PaperRow THEN <<PaperRecord>>
    ELSE IF row = OtherRow THEN <<OtherRecord>>
    ELSE << >>

RECURSIVE records_of_rows(_)
records_of_rows(rows) ==
    IF Len(rows) = 0 THEN << >>
    ELSE records_of_row(rows[1]) \o records_of_rows(Tail(rows))

RECURSIVE records_of_pages(_)
records_of_pages(ps) ==
    IF Len(ps) = 0 THEN << >>
    ELSE records_of_rows(ps[1]) \o records_of_pages(Tail(ps))

RECURSIVE count_rows(_)
count_rows(ps) == IF Len(ps) = 0 THEN 0 ELSE Len(ps[1]) + count_rows(Tail(ps))

\* C19: the list a successful invocation returns is the concatenation, in
\* request order, of the records of each page, those of a page in the order
\* of its rows with the skipped rows left out; a row yields at most one
\* record and every record comes from a row received.
C19_ServerOrder ==
    has_returned =>
        /\ Get(outcome).value = records_of_pages(pages)
        /\ Len(Get(outcome).value) <= count_rows(pages)

\* two full pages and a page mixing good and bad rows were returned in order
C19_Witness ==
    /\ has_returned
    /\ Len(pages) = 3
    /\ pages[3] = MixedPage
    /\ Get(outcome).value[51] = JaneRecord
    /\ Get(outcome).value[52] = PaperRecord
    /\ Get(outcome).value[53] = OtherRecord
    /\ Len(Get(outcome).value) = 53

\* C20: in every state of a scraper, over any number of pages and of
\* invocations, start = 25 * (draw - 1); draw and start change only
\* together, by +1 and +25; and every search request carries such a pair,
\* with length = 25.
C20_CursorRelation ==
    /\ [](search_params["start"] = 25 * (search_params["draw"] - 1))
    /\ [](\A i \in 1..Len(SearchRequests) :
            /\ SearchRequests[i].data["start"] = 25 * (SearchRequests[i].data["draw"] - 1)
            /\ SearchRequests[i].data["length"] = <<"2", "5">>)
    /\ [][(search_params'["draw"] # search_params["draw"]
            \/ search_params'["start"] # search_params["start"]) =>
                /\ search_params'["draw"] = search_params["draw"] + 1
                /\ search_params'["start"] = search_params["start"] + 25]_vars

\* a second invocation on the scraper is paging with the cursor carried over
C20_Witness ==
    /\ scrapes = 2
    /\ pc = "search"
    /\ search_params["draw"] >= 4
    /\ Len(SearchRequests) >= 2

\* the X-CSRFToken header of the session, if it has one
csrf_header(headers) ==
    IF "X-CSRFToken" \in DOMAIN headers THEN Some(headers["X-CSRFToken"]) ELSE None

\* the landing page arrived with a status other than 200
landing_page_refused ==
    /\ Len(received) >= 1
    /\ ~received[1].raised
    /\ received[1].status_code # 200

\* C21: when the GET of the landing page is answered with a non-success
\* status the invocation raises at once: the agreement is not posted, no
\* search request is sent, no record is returned, and the session's
\* X-CSRFToken header is not set (it is what it was before the invocation).
C21_LandingPageRefused ==
    /\ [](landing_page_refused =>
            /\ has_raised
            /\ Len(sent) = 1
            /\ Len(received) = 1
            /\ scrapes = 1 => csrf_header(session_headers) = None)
    /\ [][(pc = "idle" /\ pc' = "root") =>
            csrf_header(session_headers') = csrf_header(session_headers)]_vars
    /\ [][(pc = "root" /\ landing_page_refused') =>
            /\ csrf_header(session_headers') = csrf_header(session_headers)
            /\ csrf_token' = csrf_token
            /\ sent' = sent]_vars

\* a landing page that holds the token field came with status 503
C21_Witness ==
    /\ landing_page_refused
    /\ received[1].status_code = 503
    /\ ~IsNone(received[1].token)
    /\ has_raised

\* the query parameters that stand for the fields of the filters
filter_keys == {"report_types", "submitted_start_date", "submitted_end_date"}

\* C22: filters do not leak into a later scrape: in a scrape that follows
\* another on the same scraper, the first search request carries the
\* default value of every filter parameter whose field the scrape's own
\* filters did not supply.
C22_FiltersPerScrape ==
    (scrapes >= 2 /\ Len(SearchRequests) >= 1) =>
        \A k \in filter_keys \ supplied(filters) :
            SearchRequests[1].data[k] = SENATE_FILING_SEARCH_PARAMS[k]

RECURSIVE handed_filings(_)
\* the filings handed to store_filing_metadata by the calls, in order
handed_filings(calls) ==
    IF Len(calls) = 0 THEN << >>
    ELSE (IF calls[1].op = "store_filing_metadata" THEN calls[1].filings
                                                    ELSE << >>)
         \o handed_filings(Tail(calls))

metadata_stored == handed_filings(store.calls)

\* the record most recently stored under the URL
last_stored(url) ==
    metadata_stored[SetMax({i \in 1..Len(metadata_stored) :
                               metadata_stored[i].filing_url = url})]

\* the listed records as a set, empty when the listing raises
listed_set(listing) ==
    IF listing.ok THEN {listing.value[i] : i \in 1..Len(listing.value)} ELSE {}

\* the step is a call of store_filing_metadata with records that are all
\* listed already
stores_listed_again ==
    /\ Len(store'.calls) = Len(store.calls) + 1
    /\ store'.calls[Len(store'.calls)].op = "store_filing_metadata"
    /\ LET filings == store'.calls[Len(store'.calls)].filings
       IN  /\ Len(filings) > 0
           /\ \A i \in 1..Len(filings) :
                 filings[i] \in listed_set(list_stored_filings(store))

\* C23: after any calls of store_filing_metadata, list_stored_filings returns
\* one record for each distinct URL ever stored and no other, each equal to
\* the record most recently stored under its URL; storing records that are
\* listed already leaves the listed set as it was.
C23_MetadataByUrl ==
    /\ [](LET listing == list_stored_filings(store)
              urls    == {metadata_stored[i].filing_url :
                             i \in 1..Len(metadata_stored)}
          IN  /\ listing.ok
              /\ Len(listing.value) = Cardinality(urls)
              /\ {f.filing_url : f \in listed_set(listing)} = urls
              /\ \A f \in listed_set(listing) : f = last_stored(f.filing_url))
    /\ [][stores_listed_again =>
            listed_set(list_stored_filings(store'))
                = listed_set(list_stored_filings(store))]_vars

\* one URL stored twice with different records and another URL once: the
\* later record of the first and the record of the second are listed
C23_Witness ==
    /\ Len(store.calls) = 2
    /\ metadata_stored = <<JanePtr, JaneMoved, PaperFiling>>
    /\ list_stored_filings(store) = Returned(<<JaneMoved, PaperFiling>>)

RECURSIVE written_content(_)
\* the calls of store_filing_content that wrote the file, in order
written_content(calls) ==
    IF Len(calls) = 0 THEN << >>
    ELSE (IF calls[1].op = "store_filing_content"
              THEN (IF calls[1].written THEN <<calls[1]>> ELSE << >>)
              ELSE << >>)
         \o written_content(Tail(calls))

content_stored == written_content(store.calls)

\* the calls that stored content for a record with the URL
stored_for(url) ==
    {i \in 1..Len(content_stored) : content_stored[i].filing.filing_url = url}

\* C24: after any calls of store_filing_content, get_filing_content(f)
\* returns the bytes most recently stored for a record with f's URL (nothing
\* if none was), and exists(f) is true only if content was stored for f's
\* URL; so content stored for another URL is never returned for f nor
\* overwritten by storing f.
C24_ContentByUrl ==
    \A f \in StoreRecords :
        /\ exists(store, f) => stored_for(f.filing_url) # {}
        /\ get_filing_content(store, f, TRUE) =
               IF stored_for(f.filing_url) = {} THEN None
               ELSE Some(content_stored[SetMax(stored_for(f.filing_url))].content)

====
